---- MODULE Spec2Model ----
(***************************************************************************)
(* Model of alertmanager-silences-slack-reporter (src/src/main.rs).        *)
(*                                                                         *)
(* A Rust String is modelled as a sequence of atoms.  An atom is a TLA+    *)
(* string that stands either for one character ("a", "T", "U+00E9") or for *)
(* a literal piece of a format string ("*Status:* ").  Characters outside  *)
(* ASCII are written by their code point, "U+00E9", and carry their UTF-8  *)
(* width in Utf8Width.  Formatting concatenates atoms, so a rendered text  *)
(* is again a flat sequence of atoms.                                      *)
(***************************************************************************)
EXTENDS Integers, Sequences, FiniteSets, TLC

VARIABLES pc, silences, messages, i, attempts, sleeps, ts_in, ts_out

vars == <<pc, silences, messages, i, attempts, sleeps, ts_in, ts_out>>

(***************************************************************************)
(* Bounds of the model.                                                    *)
(***************************************************************************)
MaxSilences == 70
MaxRun == 3
MaxShort == 6
MaxOver == 2
MaxTail == 2
MaxTsLen == 3

(***************************************************************************)
(* Program constants.                                                      *)
(***************************************************************************)
BLOCK_LIMIT == 50
COMMENT_PREVIEW_BYTES == 100
\* The per-message count with only two blocks reserved instead of three.
MAX_SILENCES_PER_MESSAGE_TWO_RESERVED == (BLOCK_LIMIT - 2) \div 2
MAX_SILENCES_PER_MESSAGE == 23

(***************************************************************************)
(* Strings.                                                                *)
(***************************************************************************)
Repeat(c, k) == [j \in 1..k |-> c]

MultiByteChars == {"U+00E9", "U+20AC", "U+1F600"}

\* UTF-8 width of one character.
Utf8Width(c) ==
    CASE c = "U+00E9" -> 2
      [] c = "U+20AC" -> 3
      [] c = "U+1F600" -> 4
      [] OTHER -> 1

\* str::len: the length in bytes, the sum of the widths of the characters.
ByteLen(s) ==
    Len(s) + Cardinality({k \in 1..Len(s) : Utf8Width(s[k]) >= 2})
           + Cardinality({k \in 1..Len(s) : Utf8Width(s[k]) >= 3})
           + Cardinality({k \in 1..Len(s) : Utf8Width(s[k]) >= 4})

\* &s[..n]: the prefix of n bytes; panics when byte n is inside a character.
\* The guard of the caller gives n < ByteLen(s).
ByteSlice(s, n) ==
    LET cuts == {k \in (n \div 4)..n : k <= Len(s) /\ ByteLen(SubSeq(s, 1, k)) = n}
    IN  IF cuts = {}
        THEN [ok |-> FALSE, val |-> <<>>]
        ELSE [ok |-> TRUE, val |-> SubSeq(s, 1, CHOOSE k \in cuts : TRUE)]

DigitChar == <<"0", "1", "2", "3", "4", "5", "6", "7", "8", "9">>

\* Display of an unsigned integer ({} in format!).
RECURSIVE Dec(_)
Dec(n) == IF n < 10 THEN <<DigitChar[n + 1]>>
          ELSE Dec(n \div 10) \o <<DigitChar[(n % 10) + 1]>>

\* str::replace(from, to) with one character for one character.
Replace(s, from, to) == [k \in 1..Len(s) |-> IF s[k] = from THEN to ELSE s[k]]

\* str::replace(from, ""): every occurrence of the character is removed.
Remove(s, from) == SelectSeq(s, LAMBDA c : c # from)

\* str::split(sep).next(): the part before the first separator, the whole
\* string when there is none.
SplitFirst(s, sep) ==
    LET seps == {k \in 1..Len(s) : s[k] = sep}
    IN  IF seps = {} THEN s
        ELSE SubSeq(s, 1, (CHOOSE k \in seps : \A m \in seps : k <= m) - 1)

format_timestamp(timestamp) ==
    SplitFirst(Remove(Replace(timestamp, "T", " "), "Z"), ".")

(***************************************************************************)
(* The record renderer.                                                    *)
(***************************************************************************)
RenderMatcher(m) ==
    <<"  U+2022 U+0060">> \o m.name
        \o <<IF m.is_equal THEN "=" ELSE "!=">>
        \o (IF m.is_regex THEN <<"~">> ELSE <<>>)
        \o m.value \o <<"U+0060">>

\* .map(render).collect().join("\n")
RECURSIVE MatchersList(_)
MatchersList(ms) ==
    IF ms = <<>> THEN <<>>
    ELSE IF Len(ms) = 1 THEN RenderMatcher(ms[1])
    ELSE RenderMatcher(ms[1]) \o <<"\n">> \o MatchersList(Tail(ms))

CommentShown(comment) == comment # <<>> /\ comment # <<"-">> /\ comment # <<".">>

\* The comment preview; ok is FALSE when the slice panics.
CommentPreview(comment) ==
    IF ByteLen(comment) > COMMENT_PREVIEW_BYTES
    THEN LET cut == ByteSlice(comment, COMMENT_PREVIEW_BYTES)
         IN  [ok |-> cut.ok, val |-> cut.val \o <<"...">>]
    ELSE [ok |-> TRUE, val |-> comment]

\* The text of the Section block of one silence.
RenderSilence(silence) ==
    LET base == <<"*Status:* ", silence.status.state, "\n*Date:* ">>
                    \o format_timestamp(silence.starts_at) \o <<" U+2192 ">>
                    \o format_timestamp(silence.ends_at)
                    \o <<"\n*CreatedBy:* ">> \o silence.created_by
                    \o <<"\n*Matchers:*\n">> \o MatchersList(silence.matchers)
    IN  IF CommentShown(silence.comment)
        THEN LET preview == CommentPreview(silence.comment)
             IN  [ok |-> preview.ok,
                  text |-> base \o <<"\n*Comment:* _">> \o preview.val \o <<"_">>]
        ELSE [ok |-> TRUE, text |-> base]

(***************************************************************************)
(* The report builder.                                                     *)
(***************************************************************************)
Header(text) == [type |-> "header", text |-> [text_type |-> "plain_text", text |-> text]]
Section(text) == [type |-> "section", text |-> [text_type |-> "mrkdwn", text |-> text]]
Divider == [type |-> "divider"]

\* The counting loop: the records whose state is exactly the literal.
CountState(ss, literal) ==
    Cardinality({k \in 1..Len(ss) : ss[k].status.state = literal})

\* slice::chunks_exact: the trailing shorter chunk is left out.
RECURSIVE ChunksExact(_, _)
ChunksExact(s, k) ==
    IF Len(s) < k THEN <<>>
    ELSE <<SubSeq(s, 1, k)>> \o ChunksExact(SubSeq(s, k + 1, Len(s)), k)

\* Chunks that restart on the last element of the chunk before.
RECURSIVE ChunksOverlap(_, _)
ChunksOverlap(s, k) ==
    IF s = <<>> THEN <<>>
    ELSE IF Len(s) <= k THEN <<s>>
    ELSE <<SubSeq(s, 1, k)>> \o ChunksOverlap(SubSeq(s, k, Len(s)), k)

\* slice::chunks: consecutive chunks of k elements, the last one may be shorter.
RECURSIVE Chunks(_, _)
Chunks(s, k) ==
    IF s = <<>> THEN <<>>
    ELSE IF Len(s) <= k THEN <<s>>
    ELSE <<SubSeq(s, 1, k)>> \o Chunks(SubSeq(s, k + 1, Len(s)), k)

HeaderTextZeroBased(part_num, total_parts) ==
    IF total_parts > 1
    THEN <<"Alertmanager Silences Report", " (Part ">> \o Dec(part_num)
             \o <<"/">> \o Dec(total_parts) \o <<")">>
    ELSE <<"Alertmanager Silences Report">>

\* part_num is the 0-based index of enumerate().
HeaderText(part_num, total_parts) ==
    IF total_parts > 1
    THEN <<"Alertmanager Silences Report", " (Part ">> \o Dec(part_num + 1)
             \o <<"/">> \o Dec(total_parts) \o <<")">>
    ELSE <<"Alertmanager Silences Report">>

SummaryTextSwapped(total, active_count, pending_count, expired_count) ==
    <<"*Total:* ">> \o Dec(total) \o <<" | *Active:* ">> \o Dec(active_count)
        \o <<" | *Pending:* ">> \o Dec(expired_count)
        \o <<" | *Expired:* ">> \o Dec(pending_count)

SummaryText(total, active_count, pending_count, expired_count) ==
    <<"*Total:* ">> \o Dec(total) \o <<" | *Active:* ">> \o Dec(active_count)
        \o <<" | *Pending:* ">> \o Dec(pending_count)
        \o <<" | *Expired:* ">> \o Dec(expired_count)

\* The inner loop: a Section and a Divider per silence of the chunk.
SilenceBlocks(chunk) ==
    LET rendered == <<>> \o [k \in 1..Len(chunk) |-> RenderSilence(chunk[k])]
    IN  [ok |-> \A k \in 1..Len(chunk) : rendered[k].ok,
         blocks |-> [b \in 1..(2 * Len(chunk)) |->
                        IF b % 2 = 1 THEN Section(rendered[(b + 1) \div 2].text)
                        ELSE Divider]]

HasSummaryEveryPart(part_num) == TRUE

\* "Add summary only to first message"
HasSummary(part_num) == part_num = 0

\* One iteration of the loop over the chunks: the message of one chunk.
BuildMessage(part_num, chunk, total_parts, all) ==
    LET body == SilenceBlocks(chunk)
        summary == SummaryText(Len(all), CountState(all, "active"),
                               CountState(all, "pending"), CountState(all, "expired"))
    IN  [ok |-> body.ok,
         message |-> [blocks |->
            <<Header(HeaderText(part_num, total_parts))>>
            \o (IF HasSummary(part_num) THEN <<Section(summary)>> ELSE <<>>)
            \o <<Divider>>
            \o body.blocks]]

\* ok is FALSE when rendering a record panics; no value is returned then.
format_slack_messages(all) ==
    LET chunks == IF all = <<>> THEN << <<>> >>
                  ELSE Chunks(all, MAX_SILENCES_PER_MESSAGE)
        total_parts == Len(chunks)
        built == <<>> \o [p \in 1..total_parts |->
                              BuildMessage(p - 1, chunks[p], total_parts, all)]
    IN  [ok |-> \A p \in 1..total_parts : built[p].ok,
         messages |-> [p \in 1..total_parts |-> built[p].message]]

(***************************************************************************)
(* The inputs: what fetch_silences can hand to the report builder.         *)
(***************************************************************************)
Chars_2024_01_01 == <<"2", "0", "2", "4", "-", "0", "1", "-", "0", "1">>
Chars_1999_12_31 == <<"1", "9", "9", "9", "-", "1", "2", "-", "3", "1">>
Chars_00_00_00 == <<"0", "0", ":", "0", "0", ":", "0", "0">>
Chars_23_59_59 == <<"2", "3", ":", "5", "9", ":", "5", "9">>

StartsAt == Chars_2024_01_01 \o <<"T">> \o Chars_00_00_00 \o <<"Z">>
EndsAt == Chars_1999_12_31 \o <<"T">> \o Chars_23_59_59 \o <<".", "1", "2", "3", "Z">>

AlertnameMatcher(idx) ==
    [name |-> <<"alertname">>, value |-> <<"TestAlert">> \o Dec(idx),
     is_regex |-> FALSE, is_equal |-> TRUE]
InstanceMatcher == [name |-> <<"instance">>, value |-> <<"db-.*">>,
                    is_regex |-> TRUE, is_equal |-> FALSE]

MakeSilence(idx, state, comment) ==
    [id |-> <<"test-id-">> \o Dec(idx),
     status |-> [state |-> state],
     matchers |-> IF idx % 2 = 0 THEN <<AlertnameMatcher(idx)>>
                  ELSE <<AlertnameMatcher(idx), InstanceMatcher>>,
     starts_at |-> StartsAt,
     ends_at |-> EndsAt,
     updated_at |-> StartsAt,
     created_by |-> <<"user-">> \o Dec(idx),
     comment |-> comment]

\* Comments that never reach the slice: sentinels and short ones.
CommentPool == << <<>>, <<"-">>, <<"T", "e", "s", "t">>, <<".">> >>

\* The last record of a full message carries a comment of 101 ASCII
\* characters, which is cut at a character boundary.
CommentAt(idx) ==
    IF idx % MAX_SILENCES_PER_MESSAGE = 0 THEN Repeat("a", COMMENT_PREVIEW_BYTES + 1)
    ELSE CommentPool[(idx % Len(CommentPool)) + 1]

\* The first a records active, the next e expired, the next o of a state the
\* program does not know, the rest pending.
StateAt(idx, a, e, o) ==
    IF idx <= a THEN "active"
    ELSE IF idx <= a + e THEN "expired"
    ELSE IF idx <= a + e + o THEN "silenced"
    ELSE "pending"

RunInput(n, a, e, o) ==
    [idx \in 1..n |->
        MakeSilence(idx, StateAt(idx, a, e, o), CommentAt(idx))]

\* Every length up to MaxSilences with a few runs of states, and every run
\* of states on the short inputs.
Runs == {<<3, 2, 0>>, <<1, 1, 1>>, <<0, 0, 0>>, <<0, 0, 2>>}

RunInputs ==
    {RunInput(n, r[1], r[2], r[3]) : n \in 0..MaxSilences, r \in Runs}
    \cup {RunInput(n, a, e, o) : n \in 0..MaxShort, a \in 0..MaxRun,
                                 e \in 0..MaxRun, o \in 0..MaxRun}

\* Comments around the 100-byte limit, in ASCII and in characters of 2, 3 and
\* 4 bytes.
Comments ==
    {Repeat("a", k) : k \in (COMMENT_PREVIEW_BYTES - 1)..(COMMENT_PREVIEW_BYTES + MaxOver)}
    \cup {Repeat(c, k) : c \in MultiByteChars,
                         k \in {COMMENT_PREVIEW_BYTES \div 4, COMMENT_PREVIEW_BYTES \div 2,
                                (COMMENT_PREVIEW_BYTES \div 2) + 1,
                                COMMENT_PREVIEW_BYTES, COMMENT_PREVIEW_BYTES + 1}}
    \cup {Repeat("a", k) \o <<c>> \o Repeat("a", t) :
              k \in (COMMENT_PREVIEW_BYTES - 4)..COMMENT_PREVIEW_BYTES,
              c \in MultiByteChars, t \in 0..MaxTail}

CommentInputs == {<<MakeSilence(1, "active", c)>> : c \in Comments}

Inputs == RunInputs \cup CommentInputs

(***************************************************************************)
(* The driver: main.                                                       *)
(***************************************************************************)
Init ==
    /\ pc = "fetch"
    /\ silences = <<>>
    /\ messages = <<>>
    /\ i = 0
    /\ attempts = <<>>
    /\ sleeps = 0
    /\ ts_in = <<>>
    /\ ts_out = <<>>

\* let silences = fetch_silences(..)?
Fetch ==
    /\ pc = "fetch"
    /\ \/ /\ pc' = "fetch_failed"
          /\ UNCHANGED silences
       \/ \E input \in Inputs :
             /\ silences' = input
             /\ pc' = "format"
    /\ UNCHANGED <<messages, i, attempts, sleeps, ts_in, ts_out>>

\* let messages = format_slack_messages(&silences); a panic ends the process.
Format ==
    /\ pc = "format"
    /\ LET r == format_slack_messages(silences)
       IN  IF r.ok
           THEN messages' = r.messages /\ pc' = "send"
           ELSE pc' = "panicked" /\ UNCHANGED messages
    /\ UNCHANGED <<silences, i, attempts, sleeps, ts_in, ts_out>>

\* The publish loop going on to the next message after a failure.
SendNoAbort ==
    /\ pc = "send"
    /\ i < Len(messages)
    /\ \E ok \in BOOLEAN : attempts' = Append(attempts, [index |-> i, ok |-> ok])
    /\ i' = i + 1
    /\ sleeps' = IF i < Len(messages) - 1 THEN sleeps + 1 ELSE sleeps
    /\ UNCHANGED <<pc, silences, messages, ts_in, ts_out>>

\* One iteration of the publish loop: send_to_slack(message i)?, then the
\* pause unless it was the last message.  attempts records the calls.
Send ==
    /\ pc = "send"
    /\ i < Len(messages)
    /\ \E ok \in BOOLEAN :
          /\ attempts' = Append(attempts, [index |-> i, ok |-> ok])
          /\ IF ok
             THEN /\ i' = i + 1
                  /\ sleeps' = IF i < Len(messages) - 1 THEN sleeps + 1 ELSE sleeps
                  /\ pc' = pc
             ELSE /\ pc' = "send_failed"
                  /\ UNCHANGED <<i, sleeps>>
    /\ UNCHANGED <<silences, messages, ts_in, ts_out>>

\* The loop is over: Ok(()).
Finish ==
    /\ pc = "send"
    /\ i = Len(messages)
    /\ pc' = "done"
    /\ UNCHANGED <<silences, messages, i, attempts, sleeps, ts_in, ts_out>>

Next == Fetch \/ Format \/ Send \/ Finish

Spec == Init /\ [][Next]_vars

(***************************************************************************)
(* format_timestamp on its own.                                            *)
(***************************************************************************)
TsAlphabet == {"T", "Z", ".", "0", "-", "a"}

ShortStrings == UNION {[1..n -> TsAlphabet] : n \in 0..MaxTsLen}

Fractions == {<<>>, <<".", "0">>, <<".", "1", "2", "3">>}

TimestampStrings ==
    {d \o <<"T">> \o t \o f \o <<"Z">> :
        d \in {Chars_2024_01_01, Chars_1999_12_31},
        t \in {Chars_00_00_00, Chars_23_59_59}, f \in Fractions}

\* Close to a timestamp: formatted already, no zone marker, a zone offset,
\* a lower-case separator.
NearTimestampStrings ==
    {Chars_2024_01_01 \o <<" ">> \o Chars_00_00_00,
     Chars_2024_01_01 \o <<"T">> \o Chars_00_00_00,
     Chars_2024_01_01 \o <<"T">> \o Chars_00_00_00 \o <<"+", "0", "1", ":", "0", "0">>,
     Chars_2024_01_01 \o <<"t">> \o Chars_00_00_00 \o <<"z">>,
     Chars_2024_01_01 \o <<"T">> \o Chars_00_00_00 \o <<".", "Z">>,
     Chars_2024_01_01}

TsInputs == ShortStrings \cup TimestampStrings \cup NearTimestampStrings

InitTs ==
    /\ pc = "ts"
    /\ ts_in \in TsInputs
    /\ ts_out = <<>>
    /\ silences = <<>>
    /\ messages = <<>>
    /\ i = 0
    /\ attempts = <<>>
    /\ sleeps = 0

ApplyTimestamp ==
    /\ pc = "ts"
    /\ ts_out' = format_timestamp(ts_in)
    /\ pc' = "ts_done"
    /\ UNCHANGED <<silences, messages, i, attempts, sleeps, ts_in>>

NextTs == ApplyTimestamp

SpecTs == InitTs /\ [][NextTs]_vars

(***************************************************************************)
(* Properties of the report builder, checked under Spec.                   *)
(***************************************************************************)
\* format_slack_messages has returned and messages holds what it returned.
Returned == pc \in {"send", "send_failed", "done"}

IsSummary(b) == b.type = "section" /\ b.text.text[1] = "*Total:* "
IsRecord(b) == b.type = "section" /\ b.text.text[1] = "*Status:* "

\* The texts of the record Section blocks of one batch, in block order.
RecordTexts(m) ==
    LET recs == SelectSeq(m.blocks, IsRecord)
    IN  [k \in 1..Len(recs) |-> recs[k].text.text]

\* The same over all batches, in batch order.
RECURSIVE AllRecordTexts(_)
AllRecordTexts(ms) ==
    IF ms = <<>> THEN <<>> ELSE RecordTexts(Head(ms)) \o AllRecordTexts(Tail(ms))

NumBlocks(m, type) == Cardinality({b \in 1..Len(m.blocks) : m.blocks[b].type = type})

\* C1: whenever format_slack_messages returns, the number of batches is
\* max(1, ceil(n / 23)) for an input of n records; an empty input gives 1
\* batch and 50 records give 3.
BatchCount ==
    Returned =>
        LET n == Len(silences)
            ceil == (n + 22) \div 23
        IN  /\ Len(messages) = IF ceil > 1 THEN ceil ELSE 1
            /\ (n = 0 => Len(messages) = 1)
            /\ (n = 50 => Len(messages) = 3)

BatchCountWitness == pc = "done" /\ Len(silences) = 50 /\ Len(messages) = 3

\* C2: the record Section blocks of all returned batches, in batch order and
\* block order, are the renderings of the input records in input order,
\* each exactly once.
RecordsInOrder ==
    Returned =>
        LET texts == AllRecordTexts(messages)
        IN  /\ Len(texts) = Len(silences)
            /\ \A k \in 1..Len(silences) : texts[k] = RenderSilence(silences[k]).text

RecordsInOrderWitness ==
    /\ pc = "done"
    /\ Len(silences) = 2 * MAX_SILENCES_PER_MESSAGE + 1
    /\ Len(RecordTexts(messages[3])) = 1

\* C3: every returned batch has at most 50 blocks and renders at most 23
\* records, and 23 is the largest k with 3 + 2k <= 50.
BlockLimit ==
    /\ 3 + 2 * 23 <= 50
    /\ 3 + 2 * (23 + 1) > 50
    /\ Returned =>
          \A p \in 1..Len(messages) :
             /\ Len(messages[p].blocks) <= 50
             /\ Len(RecordTexts(messages[p])) <= 23

BlockLimitWitness ==
    /\ Returned
    /\ \E p \in 1..Len(messages) :
          Len(messages[p].blocks) = 49 /\ Len(RecordTexts(messages[p])) = 23

\* C8: the first returned batch has exactly one summary Section block and no
\* later batch has one; every batch has exactly one Header block, as its
\* first block, and at least one Divider block.
BatchShape ==
    Returned =>
        \A p \in 1..Len(messages) :
           LET m == messages[p]
           IN  /\ Len(SelectSeq(m.blocks, IsSummary)) = IF p = 1 THEN 1 ELSE 0
               /\ m.blocks[1].type = "header"
               /\ NumBlocks(m, "header") = 1
               /\ NumBlocks(m, "divider") >= 1

BatchShapeWitness == Returned /\ Len(messages) = 2 /\ Len(messages[2].blocks) > 2

KnownStates == {"active", "pending", "expired"}

NumInState(literal) ==
    Cardinality({k \in 1..Len(silences) : silences[k].status.state = literal})

\* C9: the summary line of the first batch reports the length of the whole
\* input as total and, as active, pending and expired, the number of records
\* whose state is exactly that literal; active + pending + expired <= total
\* with equality iff every state is one of the three; a record of another
\* state is still rendered in its position.
SummaryCounts ==
    Returned =>
        LET total == Len(silences)
            active == NumInState("active")
            pending == NumInState("pending")
            expired == NumInState("expired")
            summary == SelectSeq(messages[1].blocks, IsSummary)
            texts == AllRecordTexts(messages)
        IN  /\ Len(summary) = 1
            /\ summary[1].text.text =
                  <<"*Total:* ">> \o Dec(total) \o <<" | *Active:* ">> \o Dec(active)
                     \o <<" | *Pending:* ">> \o Dec(pending)
                     \o <<" | *Expired:* ">> \o Dec(expired)
            /\ active + pending + expired <= total
            /\ (active + pending + expired = total)
                  <=> (\A k \in 1..total : silences[k].status.state \in KnownStates)
            /\ Len(texts) = total
            /\ \A k \in 1..total : texts[k][2] = silences[k].status.state

SummaryCountsWitness ==
    /\ Returned
    /\ Len(messages) > 1
    /\ NumInState("active") = 1 /\ NumInState("expired") = 1
    /\ NumInState("pending") = Len(silences) - 3
    /\ \E k \in 1..Len(silences) : silences[k].status.state \notin KnownStates

\* C10: with N batches returned, the header of batch p is the bare title when
\* N = 1 and the title followed by "(Part p/N)" when N > 1.
PartNumbers ==
    Returned =>
        LET N == Len(messages)
        IN  \A p \in 1..N :
               /\ messages[p].blocks[1].type = "header"
               /\ messages[p].blocks[1].text.text =
                     IF N = 1 THEN <<"Alertmanager Silences Report">>
                     ELSE <<"Alertmanager Silences Report", " (Part ">> \o Dec(p)
                              \o <<"/">> \o Dec(N) \o <<")">>

PartNumbersWitness == Returned /\ Len(messages) = 3 /\ Len(silences) < 50

(***************************************************************************)
(* Properties of the publish loop, checked under Spec.                     *)
(***************************************************************************)
\* C4: send_to_slack is called on the batches in ascending index, one call
\* per batch; a call is made only after every call before it succeeded, so
\* nothing follows a failed call and no batch is sent twice.
PublishInOrder ==
    /\ Len(attempts) <= Len(messages)
    /\ \A j \in 1..Len(attempts) :
          /\ attempts[j].index = j - 1
          /\ (j < Len(attempts) => attempts[j].ok)
    /\ (pc = "send" => i = Len(attempts))
    /\ (pc = "send" /\ Len(attempts) > 0 => attempts[Len(attempts)].ok)
    /\ (pc = "done" => Len(attempts) = Len(messages) /\ attempts[Len(attempts)].ok)
    /\ (pc = "send_failed" => ~attempts[Len(attempts)].ok)

PublishInOrderWitness ==
    pc = "send_failed" /\ Len(messages) = 3 /\ Len(attempts) = 2

(***************************************************************************)
(* Properties of the comment preview, checked under Spec.                  *)
(***************************************************************************)
\* C5: format_slack_messages never aborts.
NeverPanics == pc # "panicked"

\* The comment as it stands in a rendered record: what is between the
\* comment label and the closing underscore.
RenderedComment(text) ==
    LET label == CHOOSE k \in 1..Len(text) : text[k] = "\n*Comment:* _"
    IN  SubSeq(text, label + 1, Len(text) - 1)

\* C6: a comment of more than 100 characters is rendered as its first 100
\* characters and the ellipsis, a comment of at most 100 characters is
\* rendered as it is; characters, not bytes, are counted.
PreviewByCharacters ==
    Returned =>
        LET texts == AllRecordTexts(messages)
        IN  \A k \in 1..Len(silences) :
               LET comment == silences[k].comment
               IN  CommentShown(comment) =>
                      RenderedComment(texts[k]) =
                         IF Len(comment) > 100
                         THEN SubSeq(comment, 1, 100) \o <<"...">>
                         ELSE comment

(***************************************************************************)
(* Properties of format_timestamp, checked under SpecTs.                   *)
(***************************************************************************)
Digits == {"0", "1", "2", "3", "4", "5", "6", "7", "8", "9"}

\* YYYY-MM-DDTHH:MM:SS[.fraction]Z
IsTimestamp(s) ==
    /\ Len(s) >= 20
    /\ \A k \in {1, 2, 3, 4, 6, 7, 9, 10, 12, 13, 15, 16, 18, 19} : s[k] \in Digits
    /\ s[5] = "-" /\ s[8] = "-" /\ s[11] = "T" /\ s[14] = ":" /\ s[17] = ":"
    /\ s[Len(s)] = "Z"
    /\ Len(s) > 20 =>
          /\ s[20] = "."
          /\ Len(s) > 21
          /\ \A k \in 21..(Len(s) - 1) : s[k] \in Digits

DateAndTime(s) == SubSeq(s, 1, 10) \o <<" ">> \o SubSeq(s, 12, 19)

\* C7: a timestamp gives YYYY-MM-DD HH:MM:SS and any other string comes
\* back unchanged.
TimestampOrUnchanged ==
    pc = "ts_done" =>
        IF IsTimestamp(ts_in) THEN ts_out = DateAndTime(ts_in) ELSE ts_out = ts_in

====
